---- MODULE Spec2Model ----
(***************************************************************************)
(* A model of ev3devlight: Motor, DriveBase and Mechanism (motors.py),     *)
(* Sensor and Touch (sensors.py) and the sysfs helpers (fileio.py).        *)
(*                                                                         *)
(* The program is single threaded.  Every read or write of a device file   *)
(* is one step of the program; between two steps the device firmware may   *)
(* change what the files `state', `position' and `value0' report.          *)
(*                                                                         *)
(* Python numbers that come out of a true division (`/') are modelled as   *)
(* exact rationals <<n, d>> with d > 0 in lowest terms; int() truncates    *)
(* toward zero as in Python.  A decimal text written to a device file and  *)
(* parsed back is the same integer, so a file holds the integer itself.    *)
(* Writing a str to the binary position file is modelled as MicroPython    *)
(* does it (the write succeeds); assert statements are enabled.            *)
(***************************************************************************)
EXTENDS Integers, Sequences, FiniteSets, TLC

(***************************************************************************)
(* Bounds of the model.                                                    *)
(***************************************************************************)
MaxSpeedArg == 2      \* speeds passed by callers: -MaxSpeedArg..MaxSpeedArg
MaxPos == 3           \* device position counts: -1..MaxPos
MaxTarget == 2        \* target values: 0..MaxTarget
RatedMax == 3         \* the rated speed the device file max_speed reports
MaxOpens == 6         \* file opens a program makes after construction

(***************************************************************************)
(* Python arithmetic on rationals.                                         *)
(***************************************************************************)
Abs(n) == IF n < 0 THEN -n ELSE n

RECURSIVE GCD(_, _)
GCD(a, b) == IF b = 0 THEN a ELSE GCD(b, a % b)

\* the rational n/d (d # 0) in lowest terms with a positive denominator
Rat(n, d) ==
    LET s == IF d < 0 THEN -1 ELSE 1
        g == GCD(Abs(n), Abs(d))
    IN  <<(s * n) \div g, (s * d) \div g>>

OfInt(n) == <<n, 1>>
Mul(a, b) == Rat(a[1] * b[1], a[2] * b[2])
Div(a, b) == Rat(a[1] * b[2], a[2] * b[1])
Add(a, b) == Rat(a[1] * b[2] + b[1] * a[2], a[2] * b[2])
Sub(a, b) == Rat(a[1] * b[2] - b[1] * a[2], a[2] * b[2])
Neg(a) == <<-a[1], a[2]>>
Le(a, b) == IF a[2] = b[2] THEN a[1] <= b[1] ELSE a[1] * b[2] <= b[1] * a[2]
Lt(a, b) == IF a[2] = b[2] THEN a[1] < b[1] ELSE a[1] * b[2] < b[1] * a[2]
Min(a, b) == IF Lt(b, a) THEN b ELSE a
Max(a, b) == IF Lt(a, b) THEN b ELSE a
AbsR(a) == <<Abs(a[1]), a[2]>>

\* int(value): the integer part, truncated toward zero
PyInt(a) == IF a[1] >= 0 THEN a[1] \div a[2] ELSE -((-a[1]) \div a[2])

(***************************************************************************)
(* fileio.py                                                               *)
(***************************************************************************)
\* write_int: the integer that reaches the file, str(int(value))
write_int(value) == PyInt(value)

\* read_int: the integer parsed from the file
read_int(content) == content

\* write_duty: the duty value that reaches the file
write_duty(value) ==
    LET m == IF 100 < PyInt(value) THEN 100 ELSE PyInt(value)
    IN  IF m < -100 THEN -100 ELSE m

(***************************************************************************)
(* State.                                                                  *)
(***************************************************************************)
VARIABLES
    motor,          \* the Motor object: gear_ratio, tolerance,
                    \* RATED_MOTOR_MAX_SPEED, MAX_SPEED
    max_speed,      \* the max_speed argument of Motor.__init__: <<>> is None
    dev,            \* the motor's device files: command, speed_sp,
                    \* position_sp, duty_cycle_sp, polarity, position, state
    mech,           \* <<>> or <<the Mechanism object>>: targets,
                    \* reset_forward, default_speed, touch_sensor
    value0,         \* the touch sensor's device file value0
    sensor_mode,    \* a sensor's device file mode
    base,           \* <<>> or <<the DriveBase object>>
    wheels,         \* the DriveBase's two Motor objects and their device files
    handed,         \* the speeds drive_and_turn handed to Motor.run last
    io,             \* the file opens and the path resolutions the program
                    \* made since its objects were constructed
    pc,             \* the statement the program is at; "idle" between calls
    stack,          \* the statements to continue with after the current one
    call,           \* the call the client made last, with its arguments
    frame,          \* the arguments of the Motor method being executed
    log,            \* the device accesses of the call, in order
    result          \* what the call returned or raised; "pending" during it

vars == <<motor, max_speed, dev, mech, value0, sensor_mode, base, wheels,
          handed, io, pc, stack, call, frame, log, result>>

Flags == {"running", "stalled"}
Speeds == -MaxSpeedArg .. MaxSpeedArg
Positions == -1 .. MaxPos
Targets == 0 .. MaxTarget
Tolerances == {1}
GearRatios == {Rat(1, 1), Rat(2, 1), Rat(1, 3)}
MaxSpeedArgs == {<<>>, <<1>>}

\* log entries: a write of a string or an integer, a read of an integer, and
\* the test a polling loop made on what it read (repeated polls with the same
\* outcome are logged once)
WStr(file, s) == [op |-> "write", file |-> file, s |-> s, n |-> 0]
WInt(file, n) == [op |-> "write", file |-> file, s |-> "", n |-> n]
RInt(file, n) == [op |-> "read", file |-> file, s |-> "", n |-> n]
RStr(file, s) == [op |-> "read", file |-> file, s |-> s, n |-> 0]
RTest(file, flag, b) ==
    [op |-> "read", file |-> file, s |-> flag, n |-> IF b THEN 1 ELSE 0]

Logged(l, e) == IF l # <<>> /\ l[Len(l)] = e THEN l ELSE Append(l, e)

(***************************************************************************)
(* Motor: pure parts.                                                      *)
(***************************************************************************)
\* Motor.__init__, lines 77-85
MotorMaxSpeed(rated, gear_ratio, max_arg) ==
    LET rated_over_g == Div(OfInt(rated), gear_ratio)
    IN  IF max_arg # <<>> /\ Lt(OfInt(max_arg[1]), rated_over_g)
        THEN OfInt(max_arg[1])
        ELSE rated_over_g

\* the Motor object after __init__
MotorObject(gear_ratio, setpoint_tolerance, rated, max_arg) ==
    [gear_ratio |-> gear_ratio,
     tolerance |-> setpoint_tolerance,
     RATED_MOTOR_MAX_SPEED |-> rated,
     MAX_SPEED |-> MotorMaxSpeed(rated, gear_ratio, max_arg)]

\* the device files after __init__: reset_all_settings, then the polarity
DeviceAfterInit(inverse_polarity) ==
    [command |-> "reset",
     polarity |-> IF inverse_polarity THEN "inversed" ELSE "normal",
     speed_sp |-> 0, position_sp |-> 0, duty_cycle_sp |-> 0,
     position |-> 0, speed |-> 0, state |-> {}]

\* a limit that lets every speed through
limit_Unclamped(m, speed) == speed

\* Motor.limit
limit(m, speed) == Max(Min(m.MAX_SPEED, speed), Neg(m.MAX_SPEED))

\* a getter that forgets the gear ratio
position_get_Raw(m, content) == OfInt(read_int(content))

\* Motor.position (getter): what it returns when the file holds content
position_get(m, content) == Div(OfInt(read_int(content)), m.gear_ratio)

\* Motor.position (setter): the integer written
position_set(m, new_position) == write_int(Mul(new_position, m.gear_ratio))

\* Motor.run: the speed setpoint written
run_speed_sp(m, speed) == write_int(Mul(limit(m, speed), m.gear_ratio))

\* Motor.running and Motor.stalled on a state that was read
running(st) == "running" \in st
stalled(st) == "stalled" \in st

\* an at_target whose upper bound is exclusive
at_target_Strict(m, target, content) ==
    /\ Le(Sub(target, OfInt(m.tolerance)), position_get(m, content))
    /\ Lt(position_get(m, content), Add(target, OfInt(m.tolerance)))

\* Motor.at_target, given the content of the position file
at_target(m, target, content) ==
    /\ Le(Sub(target, OfInt(m.tolerance)), position_get(m, content))
    /\ Le(position_get(m, content), Add(target, OfInt(m.tolerance)))

\* Motor.go_to: the two setpoints written
go_to_position_sp(m, target) == write_int(Mul(target, m.gear_ratio))
go_to_speed_sp(m, speed) == write_int(AbsR(Mul(limit(m, speed), m.gear_ratio)))

(***************************************************************************)
(* Control: calls, returns and exceptions.                                 *)
(***************************************************************************)
NoFrame == [target |-> OfInt(0), speed |-> OfInt(0), wait |-> FALSE,
            new_position |-> OfInt(0), mode |-> ""]

Pending == [status |-> "pending", exc |-> "", b |-> FALSE, r |-> OfInt(0),
            s |-> ""]
Returned == [Pending EXCEPT !.status = "returned"]
ReturnedBool(b) == [Returned EXCEPT !.b = b]
ReturnedNumber(r) == [Returned EXCEPT !.r = r]
ReturnedString(s) == [Returned EXCEPT !.s = s]
Raised(exc) == [Pending EXCEPT !.status = "raised", !.exc = exc]

\* no file opened and no path resolved since construction
NoOpens == [opens |-> 0, paths |-> 0]

\* open(path, mode): one more file opened
Opened(n) == [n EXCEPT !.opens = @ + 1]

\* the program before its first call
ProgramStart ==
    /\ io = NoOpens
    /\ pc = "idle"
    /\ stack = <<>>
    /\ call = [op |-> ""]
    /\ frame = NoFrame
    /\ log = <<>>
    /\ result = Returned

\* the objects and devices a program does not have
NoMechanism == mech = <<>> /\ value0 = 0
NoSensor == sensor_mode = "n/a"
NoDriveBase == base = <<>> /\ wheels = <<>> /\ handed = <<>>

\* the client calls a method: c is the call, first its first statement, rest
\* the statements that follow it, f the arguments handed to the Motor method
Enter(c, first, rest, f) ==
    /\ pc = "idle"
    /\ call' = c
    /\ pc' = first
    /\ stack' = rest
    /\ frame' = f
    /\ log' = <<>>
    /\ result' = Pending

\* the client calls a method that ends, with v, before it reaches the device
\* (or after the device accesses l, made in one step)
CompleteWith(c, v, l) ==
    /\ pc = "idle"
    /\ call' = c
    /\ pc' = "done"
    /\ log' = l
    /\ result' = v
    /\ UNCHANGED <<stack, frame>>

Complete(c, v) == CompleteWith(c, v, <<>>)

\* the current method returns: to the statement that follows the call, or
\* with value v to the client
Finish(v) ==
    IF stack = <<>>
    THEN pc' = "done" /\ result' = v /\ stack' = stack
    ELSE pc' = Head(stack) /\ stack' = Tail(stack) /\ result' = result

things == <<motor, max_speed, mech, sensor_mode, base, wheels, handed>>
objects == <<things, io>>

NoCall == [op |-> ""]

\* the client has the outcome of its call and goes on to its next call
Continue ==
    /\ pc = "done"
    /\ pc' = "idle"
    /\ call' = NoCall
    /\ frame' = NoFrame
    /\ log' = <<>>
    /\ result' = Returned
    /\ UNCHANGED <<objects, dev, value0, stack>>

(***************************************************************************)
(* Motor: the statements that access the device.                           *)
(***************************************************************************)
\* Motor.run, lines 108-109
RunSpeedSp ==
    /\ pc = "run_speed_sp"
    /\ dev' = [dev EXCEPT !.speed_sp = run_speed_sp(motor, frame.speed)]
    /\ log' = Append(log, WInt("speed_sp", run_speed_sp(motor, frame.speed)))
    /\ pc' = "run_command"
    /\ UNCHANGED <<objects, value0, stack, call, frame, result>>

\* Motor.run, line 110
RunCommand ==
    /\ pc = "run_command"
    /\ dev' = [dev EXCEPT !.command = "run-forever"]
    /\ log' = Append(log, WStr("command", "run-forever"))
    /\ Finish(Returned)
    /\ UNCHANGED <<objects, value0, call, frame>>

\* Motor.stop
StopCommand ==
    /\ pc = "stop_command"
    /\ dev' = [dev EXCEPT !.command = "stop"]
    /\ log' = Append(log, WStr("command", "stop"))
    /\ Finish(Returned)
    /\ UNCHANGED <<objects, value0, call, frame>>

\* Motor.position (setter)
SetPosition ==
    /\ pc = "set_position"
    /\ dev' = [dev EXCEPT !.position = position_set(motor, frame.new_position)]
    /\ log' = Append(log, WInt("position",
                               position_set(motor, frame.new_position)))
    /\ Finish(Returned)
    /\ UNCHANGED <<objects, value0, call, frame>>

\* a position getter that opens the position file for each read
GetPosition_Reopen ==
    /\ pc = "get_position"
    /\ io' = Opened(io)
    /\ log' = Append(log, RInt("position", dev.position))
    /\ Finish(ReturnedNumber(position_get(motor, dev.position)))
    /\ UNCHANGED <<things, dev, value0, call, frame>>

\* Motor.position (getter)
GetPosition ==
    /\ pc = "get_position"
    /\ log' = Append(log, RInt("position", dev.position))
    /\ Finish(ReturnedNumber(position_get(motor, dev.position)))
    /\ UNCHANGED <<objects, dev, value0, call, frame>>

\* Motor.at_target
AtTarget ==
    /\ pc = "at_target"
    /\ log' = Append(log, RInt("position", dev.position))
    /\ Finish(ReturnedBool(at_target(motor, frame.target, dev.position)))
    /\ UNCHANGED <<objects, dev, value0, call, frame>>

\* a go_to that does not look at the running flag
GoToRunning_Unguarded ==
    /\ pc = "go_to_running"
    /\ log' = Append(log, RTest("state", "running", running(dev.state)))
    /\ pc' = "go_to_at_target"
    /\ UNCHANGED <<objects, dev, value0, call, frame, stack, result>>

\* Motor.go_to, line 162: not self.running
GoToRunning ==
    /\ pc = "go_to_running"
    /\ log' = Append(log, RTest("state", "running", running(dev.state)))
    /\ IF running(dev.state)
       THEN Finish(Returned)
       ELSE pc' = "go_to_at_target" /\ UNCHANGED <<stack, result>>
    /\ UNCHANGED <<objects, dev, value0, call, frame>>

\* Motor.go_to, line 162: not self.at_target(target)
GoToAtTarget ==
    /\ pc = "go_to_at_target"
    /\ log' = Append(log, RInt("position", dev.position))
    /\ IF at_target(motor, frame.target, dev.position)
       THEN Finish(Returned)
       ELSE pc' = "go_to_position_sp" /\ UNCHANGED <<stack, result>>
    /\ UNCHANGED <<objects, dev, value0, call, frame>>

\* Motor.go_to, line 164
GoToPositionSp ==
    /\ pc = "go_to_position_sp"
    /\ dev' = [dev EXCEPT !.position_sp = go_to_position_sp(motor, frame.target)]
    /\ log' = Append(log, WInt("position_sp",
                               go_to_position_sp(motor, frame.target)))
    /\ pc' = "go_to_speed_sp"
    /\ UNCHANGED <<objects, value0, stack, call, frame, result>>

\* Motor.go_to, lines 166-167
GoToSpeedSp ==
    /\ pc = "go_to_speed_sp"
    /\ dev' = [dev EXCEPT !.speed_sp = go_to_speed_sp(motor, frame.speed)]
    /\ log' = Append(log, WInt("speed_sp", go_to_speed_sp(motor, frame.speed)))
    /\ pc' = "go_to_command"
    /\ UNCHANGED <<objects, value0, stack, call, frame, result>>

\* a go_to that never waits
GoToCommand_NoWait ==
    /\ pc = "go_to_command"
    /\ dev' = [dev EXCEPT !.command = "run-to-abs-pos"]
    /\ log' = Append(log, WStr("command", "run-to-abs-pos"))
    /\ Finish(Returned)
    /\ UNCHANGED <<objects, value0, call, frame>>

\* Motor.go_to, lines 169-171
GoToCommand ==
    /\ pc = "go_to_command"
    /\ dev' = [dev EXCEPT !.command = "run-to-abs-pos"]
    /\ log' = Append(log, WStr("command", "run-to-abs-pos"))
    /\ IF frame.wait
       THEN pc' = "go_to_wait" /\ UNCHANGED <<stack, result>>
       ELSE Finish(Returned)
    /\ UNCHANGED <<objects, value0, call, frame>>

\* Motor.go_to, lines 172-173: one poll of the state
GoToWait ==
    /\ pc = "go_to_wait"
    /\ log' = Logged(log, RTest("state", "running", running(dev.state)))
    /\ IF running(dev.state)
       THEN UNCHANGED <<pc, stack, result>>
       ELSE Finish(Returned)
    /\ UNCHANGED <<objects, dev, value0, call, frame>>

\* Motor.wait_for_stalled: one poll of the state
WaitForStalled ==
    /\ pc = "wait_for_stalled"
    /\ log' = Logged(log, RTest("state", "stalled", stalled(dev.state)))
    /\ IF stalled(dev.state)
       THEN Finish(Returned)
       ELSE UNCHANGED <<pc, stack, result>>
    /\ UNCHANGED <<objects, dev, value0, call, frame>>

MotorStep ==
    \/ RunSpeedSp \/ RunCommand \/ StopCommand
    \/ GoToRunning \/ GoToAtTarget \/ GoToPositionSp \/ GoToSpeedSp
    \/ GoToCommand \/ GoToWait

(***************************************************************************)
(* The device firmware: it changes what state and position report.  The    *)
(* program sees a change only through its next read of the file, so the    *)
(* device moves when the program is at a statement that reads the file.    *)
(***************************************************************************)
ReadsState == {"go_to_running", "go_to_wait", "wait_for_stalled",
               "state", "running", "stalled"}
ReadsPosition == {"go_to_at_target", "at_target", "get_position"}
ReadsValue0 == {"wait_for_press", "value0"}

DeviceState ==
    /\ pc \in ReadsState
    /\ \E st \in SUBSET Flags : dev' = [dev EXCEPT !.state = st]
    /\ UNCHANGED <<objects, value0, pc, stack, call, frame, log, result>>

DevicePosition ==
    /\ pc \in ReadsPosition
    /\ \E p \in Positions : dev' = [dev EXCEPT !.position = p]
    /\ UNCHANGED <<objects, value0, pc, stack, call, frame, log, result>>

(***************************************************************************)
(* A program that uses one Motor.                                          *)
(***************************************************************************)
CallRun ==
    \E speed \in Speeds :
        Enter([op |-> "run", speed |-> speed], "run_speed_sp", <<>>,
              [NoFrame EXCEPT !.speed = OfInt(speed)])
        /\ UNCHANGED <<objects, dev, value0>>

CallStop ==
    /\ Enter([op |-> "stop"], "stop_command", <<>>, NoFrame)
    /\ UNCHANGED <<objects, dev, value0>>

CallAtTarget ==
    \E target \in Targets :
        Enter([op |-> "at_target", target |-> target], "at_target", <<>>,
              [NoFrame EXCEPT !.target = OfInt(target)])
        /\ UNCHANGED <<objects, dev, value0>>

CallGoTo ==
    \E target \in Targets, speed \in Speeds, wait \in BOOLEAN :
        Enter([op |-> "go_to", target |-> target, speed |-> speed,
               wait |-> wait],
              "go_to_running", <<>>,
              [NoFrame EXCEPT !.target = OfInt(target),
                              !.speed = OfInt(speed), !.wait = wait])
        /\ UNCHANGED <<objects, dev, value0>>

Init ==
    /\ \E g \in GearRatios, tol \in Tolerances, m \in MaxSpeedArgs :
          /\ motor = MotorObject(g, tol, RatedMax, m)
          /\ max_speed = m
    /\ dev = DeviceAfterInit(FALSE)
    /\ NoMechanism /\ NoSensor /\ NoDriveBase
    /\ ProgramStart

Next ==
    \/ Continue
    \/ CallRun \/ CallStop \/ CallAtTarget \/ CallGoTo
    \/ MotorStep \/ AtTarget
    \/ DeviceState \/ DevicePosition

Spec == Init /\ [][Next]_vars

(***************************************************************************)
(* Touch sensor (sensors.py) and its device.                               *)
(***************************************************************************)
\* Touch.pressed on a value0 that was read
pressed(v) == v # 0

\* Touch.wait_for_press: one poll of value0
WaitForPress ==
    /\ pc = "wait_for_press"
    /\ log' = Logged(log, RTest("value0", "pressed", pressed(read_int(value0))))
    /\ IF pressed(read_int(value0))
       THEN Finish(Returned)
       ELSE UNCHANGED <<pc, stack, result>>
    /\ UNCHANGED <<objects, dev, value0, call, frame>>

TouchDevice ==
    /\ pc \in ReadsValue0
    /\ \E v \in {0, 1} : value0' = v
    /\ UNCHANGED <<objects, dev, pc, stack, call, frame, log, result>>

(***************************************************************************)
(* Mechanism.                                                              *)
(***************************************************************************)
TargetNames == {"reset", "a", "b"}
TargetMaps == UNION {[names -> Targets] : names \in SUBSET TargetNames}
DefaultSpeeds == 1 .. MaxSpeedArg

\* max(targets.values()) and min(targets.values())
MaxValue(targets) ==
    CHOOSE v \in {targets[k] : k \in DOMAIN targets} :
        \A k \in DOMAIN targets : targets[k] <= v
MinValue(targets) ==
    CHOOSE v \in {targets[k] : k \in DOMAIN targets} :
        \A k \in DOMAIN targets : v <= targets[k]

\* a constructor that checks only that the reset target exists
InitRaises_NoAssert(targets) ==
    IF "reset" \notin DOMAIN targets THEN "KeyError" ELSE ""

\* Mechanism.__init__, lines 263-265: the exception raised, "" when none is
InitRaises(targets) ==
    IF "reset" \notin DOMAIN targets THEN "KeyError"
    ELSE IF targets["reset"] \notin {MaxValue(targets), MinValue(targets)}
         THEN "AssertionError"
         ELSE ""

\* Mechanism.__init__, lines 269-278: the object
MechanismObject(targets, default_speed, touch_sensor) ==
    [targets |-> targets,
     reset_forward |-> (targets["reset"] = MaxValue(targets)),
     default_speed |-> default_speed,
     touch_sensor |-> touch_sensor]

\* a reset that always drives forward
reset_speed_Forward(m) == OfInt(m.default_speed)

\* Mechanism.reset, lines 298-301: the speed handed to Motor.run
reset_speed(m) ==
    IF m.reset_forward THEN OfInt(m.default_speed)
    ELSE OfInt(-m.default_speed)

\* Mechanism.reset: motor.run, wait_for_stop, motor.stop, motor.position =
ResetFrame(m) ==
    [NoFrame EXCEPT !.speed = reset_speed(m),
                    !.new_position = OfInt(m.targets["reset"])]
ResetRest == <<"wait_for_stop", "stop_command", "set_position">>

\* a wait_for_stop that waits for the motor to stall, sensor or not
WaitForStop_Stalled ==
    /\ pc = "wait_for_stop"
    /\ pc' = "wait_for_stalled"
    /\ UNCHANGED <<objects, dev, value0, stack, call, frame, log, result>>

\* Mechanism.wait_for_stop, lines 287-293
WaitForStop ==
    /\ pc = "wait_for_stop"
    /\ pc' = IF mech[1].touch_sensor THEN "wait_for_press"
             ELSE "wait_for_stalled"
    /\ UNCHANGED <<objects, dev, value0, stack, call, frame, log, result>>

\* Mechanism(motor, targets, default_speed, touch_sensor, reset_immediately)
CallMechanism ==
    /\ mech = <<>>
    /\ \E targets \in TargetMaps, default_speed \in DefaultSpeeds,
          touch_sensor \in BOOLEAN, reset_immediately \in BOOLEAN :
          LET c == [op |-> "Mechanism", targets |-> targets,
                    default_speed |-> default_speed,
                    touch_sensor |-> touch_sensor,
                    reset_immediately |-> reset_immediately]
              m == MechanismObject(targets, default_speed, touch_sensor)
          IN  IF InitRaises(targets) # ""
              THEN Complete(c, Raised(InitRaises(targets))) /\ mech' = mech
              ELSE /\ mech' = <<m>>
                   /\ IF reset_immediately
                      THEN Enter(c, "run_speed_sp", ResetRest, ResetFrame(m))
                      ELSE Complete(c, Returned)
    /\ UNCHANGED <<motor, max_speed, dev, value0, sensor_mode, base, wheels,
                   handed, io>>

\* Mechanism.reset()
CallReset ==
    /\ mech # <<>>
    /\ Enter([op |-> "reset"], "run_speed_sp", ResetRest, ResetFrame(mech[1]))
    /\ UNCHANGED <<objects, dev, value0>>

\* Mechanism.wait_for_stop()
CallWaitForStop ==
    /\ mech # <<>>
    /\ Enter([op |-> "wait_for_stop"], "wait_for_stop", <<>>, NoFrame)
    /\ UNCHANGED <<objects, dev, value0>>

\* Mechanism.go_to_target, lines 313-314: the speed handed to Motor.go_to;
\* <<>> is None
go_to_target_speed(m, speed) ==
    IF speed = <<>> THEN m.default_speed ELSE speed[1]

\* a go_to_target that goes to 0 for a name it does not know
CallGoToTarget_Default ==
    /\ mech # <<>>
    /\ \E target \in TargetNames, speed \in {<<>>} \cup {<<v>> : v \in Speeds},
          wait \in BOOLEAN :
          LET c == [op |-> "go_to_target", name |-> target,
                    speed_arg |-> speed, wait |-> wait]
              m == mech[1]
          IN  Enter(c, "go_to_running", <<>>,
                    [NoFrame EXCEPT
                        !.target = IF target \in DOMAIN m.targets
                                   THEN OfInt(m.targets[target])
                                   ELSE OfInt(0),
                        !.speed = OfInt(go_to_target_speed(m, speed)),
                        !.wait = wait])
    /\ UNCHANGED <<objects, dev, value0>>

\* Mechanism.go_to_target(target, speed, wait)
CallGoToTarget ==
    /\ mech # <<>>
    /\ \E target \in TargetNames, speed \in {<<>>} \cup {<<v>> : v \in Speeds},
          wait \in BOOLEAN :
          LET c == [op |-> "go_to_target", name |-> target,
                    speed_arg |-> speed, wait |-> wait]
              m == mech[1]
          IN  IF target \notin DOMAIN m.targets
              THEN Complete(c, Raised("KeyError"))
              ELSE Enter(c, "go_to_running", <<>>,
                         [NoFrame EXCEPT
                             !.target = OfInt(m.targets[target]),
                             !.speed = OfInt(go_to_target_speed(m, speed)),
                             !.wait = wait])
    /\ UNCHANGED <<objects, dev, value0>>

(***************************************************************************)
(* A program that constructs a Mechanism on a Motor (and a Touch sensor).  *)
(***************************************************************************)
MechGearRatios == {Rat(1, 1), Rat(1, 3)}

InitMechInit ==
    /\ \E g \in MechGearRatios, tol \in Tolerances :
          motor = MotorObject(g, tol, RatedMax, <<>>)
    /\ max_speed = <<>>
    /\ dev = DeviceAfterInit(FALSE)
    /\ NoMechanism /\ NoSensor /\ NoDriveBase
    /\ ProgramStart

NextMechInit ==
    \/ Continue
    \/ CallMechanism
    \/ RunSpeedSp \/ RunCommand \/ WaitForStop \/ WaitForPress
    \/ WaitForStalled \/ StopCommand \/ SetPosition
    \/ DeviceState \/ TouchDevice

SpecMechInit == InitMechInit /\ [][NextMechInit]_vars

(***************************************************************************)
(* A program that uses a Mechanism it has constructed with                 *)
(* reset_immediately=False.                                                *)
(***************************************************************************)
UsedTargetMaps ==
    {t \in UNION {[names -> Targets] : names \in {{"reset"}, {"reset", "a"}}} :
        InitRaises(t) = ""}

InitMech ==
    /\ \E g \in MechGearRatios, tol \in Tolerances :
          motor = MotorObject(g, tol, RatedMax, <<>>)
    /\ max_speed = <<>>
    /\ dev = DeviceAfterInit(FALSE)
    /\ \E targets \in UsedTargetMaps, default_speed \in DefaultSpeeds,
          touch_sensor \in BOOLEAN :
          mech = <<MechanismObject(targets, default_speed, touch_sensor)>>
    /\ value0 = 0
    /\ NoSensor /\ NoDriveBase
    /\ ProgramStart

NextMech ==
    \/ Continue
    \/ CallReset \/ CallWaitForStop \/ CallGoToTarget
    \/ WaitForStop \/ WaitForPress \/ WaitForStalled \/ SetPosition
    \/ MotorStep
    \/ DeviceState \/ DevicePosition \/ TouchDevice

SpecMech == InitMech /\ [][NextMech]_vars

(***************************************************************************)
(* A program that sets the position of a Motor and reads it back, on a     *)
(* device that reports the integer it was given.                           *)
(***************************************************************************)
MaxGear == 3          \* gear ratios n/d with n, d in 1..MaxGear

PositionGearRatios == {Rat(n, d) : n \in 1 .. MaxGear, d \in 1 .. MaxGear}
PositionValues == {OfInt(n) : n \in -MaxPos .. MaxPos}

\* motor.position = x, then motor.position
CallSetGetPosition ==
    \E x \in PositionValues :
        Enter([op |-> "set_get_position", x |-> x],
              "set_position", <<"get_position">>,
              [NoFrame EXCEPT !.new_position = x])
        /\ UNCHANGED <<objects, dev, value0>>

InitPosition ==
    /\ \E g \in PositionGearRatios, tol \in Tolerances :
          motor = MotorObject(g, tol, RatedMax, <<>>)
    /\ max_speed = <<>>
    /\ dev = DeviceAfterInit(FALSE)
    /\ NoMechanism /\ NoSensor /\ NoDriveBase
    /\ ProgramStart

NextPosition ==
    \/ Continue \/ CallSetGetPosition \/ SetPosition \/ GetPosition

SpecPosition == InitPosition /\ [][NextPosition]_vars

(***************************************************************************)
(* Sensor (sensors.py): the mode property.                                 *)
(***************************************************************************)
Modes == {"GYRO-RATE", "GYRO-ANG", "GYRO-G&A", "GYRO-CAL"}

\* the text of the mode file, and what strip() makes of a text
mode_file(mode) == <<mode, "\n">>
strip(text) == text[1]

\* Sensor.mode (getter): open, read, strip
mode_get(mode) == strip(mode_file(mode))

\* Sensor.mode (getter)
GetMode ==
    /\ pc = "mode_get"
    /\ io' = Opened(io)
    /\ log' = Append(log, RStr("mode", mode_get(sensor_mode)))
    /\ Finish(ReturnedString(mode_get(sensor_mode)))
    /\ UNCHANGED <<things, dev, value0, call, frame>>

\* a setter that writes whatever the mode is
SetModeCompare_Always ==
    /\ pc = "mode_set_compare"
    /\ io' = Opened(io)
    /\ log' = Append(log, RStr("mode", mode_get(sensor_mode)))
    /\ pc' = "mode_set_write"
    /\ UNCHANGED <<things, dev, value0, call, frame, stack, result>>

\* Sensor.mode (setter), line 35: self.mode != mode
SetModeCompare ==
    /\ pc = "mode_set_compare"
    /\ io' = Opened(io)
    /\ log' = Append(log, RStr("mode", mode_get(sensor_mode)))
    /\ IF mode_get(sensor_mode) # frame.mode
       THEN pc' = "mode_set_write" /\ UNCHANGED <<stack, result>>
       ELSE Finish(Returned)
    /\ UNCHANGED <<things, dev, value0, call, frame>>

\* Sensor.mode (setter), lines 37-38
SetModeWrite ==
    /\ pc = "mode_set_write"
    /\ sensor_mode' = frame.mode
    /\ io' = Opened(io)
    /\ log' = Append(log, WStr("mode", frame.mode))
    /\ Finish(Returned)
    /\ UNCHANGED <<motor, max_speed, mech, base, wheels, handed, dev, value0,
                   call, frame>>

\* sensor.mode
CallGetMode ==
    /\ io.opens < MaxOpens
    /\ Enter([op |-> "mode"], "mode_get", <<>>, NoFrame)
    /\ UNCHANGED <<objects, dev, value0>>

\* sensor.mode = mode, once or twice in a row
CallSetMode ==
    \E mode \in Modes, times \in {1, 2} :
        /\ io.opens + times < MaxOpens
        /\ Enter([op |-> "mode=", mode |-> mode, times |-> times],
              "mode_set_compare",
              IF times = 2 THEN <<"mode_set_compare">> ELSE <<>>,
              [NoFrame EXCEPT !.mode = mode])
        /\ UNCHANGED <<objects, dev, value0>>

InitSensor ==
    /\ motor = <<>> /\ max_speed = <<>> /\ dev = <<>>
    /\ NoMechanism /\ NoDriveBase
    /\ sensor_mode \in Modes \cup {"n/a"}
    /\ ProgramStart

NextSensor ==
    \/ Continue \/ CallGetMode \/ CallSetMode
    \/ GetMode \/ SetModeCompare \/ SetModeWrite

SpecSensor == InitSensor /\ [][NextSensor]_vars

(***************************************************************************)
(* DriveBase.                                                              *)
(***************************************************************************)
DefaultTolerance == 5        \* Motor.__init__: setpoint_tolerance=5
DefaultMaxSpeed == 100       \* DriveBase.__init__: max_speed is None
DefaultMaxTurnRate == 360    \* DriveBase.__init__: max_turn_rate is None
VirtualMaxSpeed == 1560      \* the max_speed file of the virtual hardware

WheelDiameters == {4, 5}
WheelSpans == {10, 12}
DriveGearRatios == {Rat(1, 1), Rat(1, 3)}
MaxDriveSpeeds == {<<>>, <<50>>}
MaxTurnRates == {<<>>, <<180>>}
DriveSpeeds == {-100000, -100, -40, 0, 40, 100, 100000}
TurnRates == {-400, -90, 0, 90, 400}

\* DriveBase.__init__, line 201
deg_per_rad == Div(OfInt(180), Rat(31416, 10000))

\* DriveBase.__init__, lines 194-211: the object
DriveBaseObject(wheel_diameter, wheel_span, positive_turn_is_clockwise, max_speed_arg, max_turn_rate_arg) ==
    LET wheel_radius == Div(OfInt(wheel_diameter), OfInt(2))
        wheel_base_radius == Div(OfInt(wheel_span), OfInt(2))
    IN  [max_speed |-> IF max_speed_arg = <<>> THEN DefaultMaxSpeed
                       ELSE max_speed_arg[1],
         max_turn_rate |-> IF max_turn_rate_arg = <<>> THEN DefaultMaxTurnRate
                           ELSE max_turn_rate_arg[1],
         positive_turn_is_clockwise |-> positive_turn_is_clockwise,
         wheel_factor |-> Div(wheel_radius, deg_per_rad),
         base_factor |-> Div(wheel_base_radius, deg_per_rad)]

\* DriveBase.__init__, lines 214-219: a wheel's Motor and its device
Wheel(inverse_polarity, gear_ratio) ==
    [motor |-> MotorObject(gear_ratio, DefaultTolerance, VirtualMaxSpeed, <<>>),
     dev |-> DeviceAfterInit(inverse_polarity)]

\* a drive_and_turn that clamps the wheel speeds to max_speed as well
drive_and_turn_Clamped(b, speed_cm_sec, turnrate_deg_sec) ==
    LET limited_speed == Max(Min(OfInt(speed_cm_sec), OfInt(b.max_speed)),
                             OfInt(-b.max_speed))
        nett_speed == Div(limited_speed, b.wheel_factor)
        limited_rate == Max(Min(OfInt(turnrate_deg_sec),
                                OfInt(b.max_turn_rate)),
                            OfInt(-b.max_turn_rate))
        difference == Div(Mul(limited_rate, b.base_factor), b.wheel_factor)
        clamp(v) == Max(Min(v, OfInt(b.max_speed)), OfInt(-b.max_speed))
    IN  IF b.positive_turn_is_clockwise
        THEN <<clamp(Add(nett_speed, difference)),
               clamp(Sub(nett_speed, difference))>>
        ELSE <<clamp(Sub(nett_speed, difference)),
               clamp(Add(nett_speed, difference))>>

\* DriveBase.drive_and_turn, lines 224-238: <<left_speed, right_speed>>
drive_and_turn(b, speed_cm_sec, turnrate_deg_sec) ==
    LET limited_speed == Max(Min(OfInt(speed_cm_sec), OfInt(b.max_speed)),
                             OfInt(-b.max_speed))
        nett_speed == Div(limited_speed, b.wheel_factor)
        limited_rate == Max(Min(OfInt(turnrate_deg_sec),
                                OfInt(b.max_turn_rate)),
                            OfInt(-b.max_turn_rate))
        difference == Div(Mul(limited_rate, b.base_factor), b.wheel_factor)
    IN  IF b.positive_turn_is_clockwise
        THEN <<Add(nett_speed, difference), Sub(nett_speed, difference)>>
        ELSE <<Sub(nett_speed, difference), Add(nett_speed, difference)>>

\* Motor.run on a wheel
WheelRun(w, speed) ==
    [w EXCEPT !.dev.speed_sp = run_speed_sp(w.motor, speed),
              !.dev.command = "run-forever"]
WheelRunLog(side, w, speed) ==
    <<WInt(side, run_speed_sp(w.motor, speed)), WStr(side, "run-forever")>>

\* Motor.stop on a wheel
WheelStop(w) == [w EXCEPT !.dev.command = "stop"]

\* base.drive_and_turn(speed_cm_sec, turnrate_deg_sec)
CallDriveAndTurn ==
    \E speed \in DriveSpeeds, turnrate \in TurnRates :
        LET h == drive_and_turn(base[1], speed, turnrate)
        IN  /\ handed' = h
            /\ wheels' = [left |-> WheelRun(wheels.left, h[1]),
                          right |-> WheelRun(wheels.right, h[2])]
            /\ CompleteWith([op |-> "drive_and_turn", speed |-> speed,
                             turnrate |-> turnrate], Returned,
                            WheelRunLog("left", wheels.left, h[1])
                            \o WheelRunLog("right", wheels.right, h[2]))
            /\ UNCHANGED <<motor, max_speed, mech, sensor_mode, base, dev,
                           value0, io>>

\* base.stop()
CallDriveStop ==
    /\ wheels' = [left |-> WheelStop(wheels.left),
                  right |-> WheelStop(wheels.right)]
    /\ CompleteWith([op |-> "stop"], Returned,
                    <<WStr("left", "stop"), WStr("right", "stop")>>)
    /\ UNCHANGED <<motor, max_speed, mech, sensor_mode, base, handed, dev,
                   value0, io>>

InitDrive ==
    /\ motor = <<>> /\ max_speed = <<>> /\ dev = <<>>
    /\ NoMechanism /\ NoSensor
    /\ \E d \in WheelDiameters, span \in WheelSpans, cw \in BOOLEAN,
          ms \in MaxDriveSpeeds, mt \in MaxTurnRates :
          base = <<DriveBaseObject(d, span, cw, ms, mt)>>
    /\ \E gl \in DriveGearRatios, gr \in DriveGearRatios :
          wheels = [left |-> Wheel(FALSE, gl), right |-> Wheel(FALSE, gr)]
    /\ handed = <<>>
    /\ ProgramStart

NextDrive == Continue \/ CallDriveAndTurn \/ CallDriveStop

SpecDrive == InitDrive /\ [][NextDrive]_vars

(***************************************************************************)
(* The properties.                                                         *)
(***************************************************************************)
\* the writes among the device accesses l, in order
Writes(l) == SelectSeq(l, LAMBDA e : e.op = "write")

\* p is the integer part of num/den (den > 0), truncated toward zero
IsTrunc(p, num, den) ==
    IF num >= 0
    THEN p * den <= num /\ num < (p + 1) * den
    ELSE (p - 1) * den < num /\ num <= p * den

\* the reset value of t is the largest, the smallest, of t's values
ResetIsMax(t) == \A k \in DOMAIN t : t[k] <= t["reset"]
ResetIsMin(t) == \A k \in DOMAIN t : t["reset"] <= t[k]
ValidTargets(t) == "reset" \in DOMAIN t /\ (ResetIsMax(t) \/ ResetIsMin(t))

\* C1: a Mechanism is constructed exactly when its target map has a reset
\* entry that is the maximum or the minimum of the target values; for every
\* other map the constructor raises without an access to the motor, also with
\* reset_immediately; the stored direction is forward exactly when the reset
\* value is the maximum.
C1_Construction ==
    /\ mech # <<>> =>
          /\ ValidTargets(mech[1].targets)
          /\ mech[1].reset_forward = ResetIsMax(mech[1].targets)
    /\ call.op = "Mechanism" =>
          IF ValidTargets(call.targets)
          THEN /\ mech # <<>>
               /\ mech[1].targets = call.targets
               /\ result.status # "raised"
          ELSE /\ mech = <<>>
               /\ pc = "done"
               /\ result.status = "raised"
               /\ log = <<>>
               /\ dev = DeviceAfterInit(FALSE)

\* C1: the constructor has raised on a map whose reset value lies strictly
\* between two other targets, with reset_immediately
C1_Witness ==
    /\ pc = "done"
    /\ call.op = "Mechanism"
    /\ call.reset_immediately
    /\ "reset" \in DOMAIN call.targets
    /\ ~ResetIsMax(call.targets) /\ ~ResetIsMin(call.targets)
    /\ result.exc = "AssertionError"

\* the accesses of log l from the i-th on
From(l, i) == SubSeq(l, i, Len(l))

\* l is made of polls of one file that ended with the awaited outcome
IsWait(l) ==
    /\ l # <<>>
    /\ \A i \in DOMAIN l : l[i].op = "read" /\ l[i].file = l[1].file
    /\ l[Len(l)].n = 1

\* the accesses of a complete reset(), with speed setpoint v and position p
IsResetLog(l, v, p) ==
    /\ Len(l) >= 5
    /\ l[1] = WInt("speed_sp", v)
    /\ l[2] = WStr("command", "run-forever")
    /\ IsWait(SubSeq(l, 3, Len(l) - 2))
    /\ l[Len(l) - 1] = WStr("command", "stop")
    /\ l[Len(l)] = WInt("position", p)

\* the accesses of a reset() that is under way: a start of a complete one
IsResetPrefix(l) ==
    /\ Len(l) >= 1 => l[1].op = "write" /\ l[1].file = "speed_sp"
    /\ Len(l) >= 2 => l[2] = WStr("command", "run-forever")
    /\ \A i \in 3 .. Len(l) :
          \/ l[i].op = "read" /\ \A j \in 3 .. i - 1 : l[j].op = "read" /\ l[j].n = 0
          \/ l[i] = WStr("command", "stop") /\ IsWait(SubSeq(l, 3, i - 1))
          \/ /\ l[i].op = "write" /\ l[i].file = "position"
             /\ i = Len(l) /\ l[i - 1] = WStr("command", "stop")

C2_IsReset == call.op = "reset" \/ (call.op = "Mechanism" /\ mech # <<>>)

\* no operation of the Mechanism but reset() writes the position
C2_OnlyResetWritesPosition ==
    call.op \in {"go_to_target", "wait_for_stop"} =>
        \A i \in DOMAIN log : ~(log[i].op = "write" /\ log[i].file = "position")

\* C2 as stated: reset() writes the speed setpoint and run-forever, waits for
\* the end stop, writes stop, writes the position; the setpoint is positive
\* when the reset target is the maximum and negative when it is the minimum;
\* the position written is the reset target times the gear ratio.
C2_Original ==
    /\ C2_OnlyResetWritesPosition
    /\ C2_IsReset => IsResetPrefix(log)
    /\ (C2_IsReset /\ pc = "done") =>
          LET t == mech[1].targets
              g == motor.gear_ratio
              v == log[1].n
              p == log[Len(log)].n
          IN  /\ IsResetLog(log, v, p)
              /\ IF ResetIsMax(t) THEN v > 0 ELSE v < 0
              /\ p * g[2] = t["reset"] * g[1]
              /\ dev.command = "stop" /\ dev.position = p

\* C2, as the code has it: the same order of writes; the setpoint is the
\* integer part
\* of the clamped speed times the gear ratio, so it is >= 0 when the reset
\* target is the maximum and <= 0 when it is the minimum and not the maximum;
\* the position written is the integer part of reset target times gear ratio.
C2_ResetOrder ==
    /\ C2_OnlyResetWritesPosition
    /\ C2_IsReset => IsResetPrefix(log)
    /\ (C2_IsReset /\ pc = "done") =>
          LET t == mech[1].targets
              g == motor.gear_ratio
              d == mech[1].default_speed
              v == log[1].n
              p == log[Len(log)].n
              \* |clamped speed| * gear ratio, over the denominator g[2]
              k == IF d * g[1] <= motor.RATED_MOTOR_MAX_SPEED * g[2]
                   THEN d * g[1]
                   ELSE motor.RATED_MOTOR_MAX_SPEED * g[2]
          IN  /\ IsResetLog(log, v, p)
              /\ IF ResetIsMax(t) THEN v >= 0 /\ IsTrunc(v, k, g[2])
                 ELSE v <= 0 /\ IsTrunc(v, -k, g[2])
              /\ IsTrunc(p, t["reset"] * g[1], g[2])
              /\ dev.command = "stop" /\ dev.position = p

\* C2: a reset() toward a minimum has returned after polling an end stop that
\* was not reached at first, with a setpoint below zero
C2_Witness ==
    /\ pc = "done"
    /\ call.op = "reset"
    /\ ~ResetIsMax(mech[1].targets)
    /\ log[1].n < 0
    /\ Len(log) = 6
    /\ log[Len(log)].n > 0

\* the least of two integers
Least(a, b) == IF a <= b THEN a ELSE b

\* MAX_SPEED times the gear ratio, over the denominator gear_ratio[2], with
\* MAX_SPEED = min(rated / gear_ratio, max_speed)
LimitTimesGear ==
    IF max_speed = <<>>
    THEN motor.RATED_MOTOR_MAX_SPEED * motor.gear_ratio[2]
    ELSE Least(motor.RATED_MOTOR_MAX_SPEED * motor.gear_ratio[2],
               max_speed[1] * motor.gear_ratio[1])

\* MAX_SPEED is min(rated / gear_ratio, max_speed), as set at construction
MaxSpeedIsMin ==
    motor.MAX_SPEED[1] * motor.gear_ratio[1]
        = LimitTimesGear * motor.MAX_SPEED[2]

\* the speed setpoints Motor.run wrote stay within MAX_SPEED times gear ratio
C3_Clamp ==
    /\ MaxSpeedIsMin
    /\ call.op = "run" =>
          \A i \in DOMAIN log :
              (log[i].op = "write" /\ log[i].file = "speed_sp") =>
                  Abs(log[i].n) * motor.gear_ratio[2] <= LimitTimesGear

\* speed (an integer) is within -MAX_SPEED .. MAX_SPEED
C3_Within(speed) == Abs(speed) * motor.gear_ratio[1] <= LimitTimesGear

\* C3 as stated: run(speed) never transmits a setpoint beyond MAX_SPEED times
\* the gear ratio, MAX_SPEED being min(rated / gear_ratio, max_speed); for a
\* speed within the limit the setpoint is speed times the gear ratio.
C3_Original ==
    /\ C3_Clamp
    /\ (call.op = "run" /\ log # <<>> /\ C3_Within(call.speed)) =>
          log[1].n * motor.gear_ratio[2] = call.speed * motor.gear_ratio[1]

\* C3, as the code has it: the same bound; for a speed within the limit the
\* setpoint is
\* the integer part (toward zero) of speed times the gear ratio.
C3_RunClamp ==
    /\ C3_Clamp
    /\ (call.op = "run" /\ log # <<>>) =>
          /\ log[1].op = "write" /\ log[1].file = "speed_sp"
          /\ dev.speed_sp = log[1].n
          /\ C3_Within(call.speed) =>
                IsTrunc(log[1].n, call.speed * motor.gear_ratio[1],
                        motor.gear_ratio[2])

\* C3: run(speed) has returned for a speed beyond a max_speed that the user
\* set below the rated speed, and the setpoint is at the limit
C3_Witness ==
    /\ pc = "done"
    /\ call.op = "run"
    /\ max_speed # <<>>
    /\ ~C3_Within(call.speed)
    /\ Abs(dev.speed_sp) * motor.gear_ratio[2] = LimitTimesGear
    /\ dev.speed_sp # 0

\* the device position p (counts) is within the tolerance of target
InBand(target, p) ==
    /\ (target - motor.tolerance) * motor.gear_ratio[1] <= p * motor.gear_ratio[2]
    /\ p * motor.gear_ratio[2] <= (target + motor.tolerance) * motor.gear_ratio[1]

\* go_to read `running', or read a position within the tolerance of target,
\* and did nothing more
C4_Guarded(target) ==
    \/ Len(log) = 1 /\ log[1] = RTest("state", "running", TRUE)
    \/ /\ Len(log) = 2
       /\ log[1] = RTest("state", "running", FALSE)
       /\ log[2].op = "read" /\ log[2].file = "position"
       /\ InBand(target, log[2].n)

\* go_to read a state without `running' and a position outside the tolerance
\* of target, then wrote a position setpoint, a speed setpoint and the command
C4_Issued(target) ==
    /\ Len(log) >= 5
    /\ log[1] = RTest("state", "running", FALSE)
    /\ log[2].op = "read" /\ log[2].file = "position"
    /\ ~InBand(target, log[2].n)
    /\ log[3].op = "write" /\ log[3].file = "position_sp"
    /\ log[4].op = "write" /\ log[4].file = "speed_sp"
    /\ log[5] = WStr("command", "run-to-abs-pos")
    /\ \A i \in 6 .. Len(log) : log[i].op = "read"
    /\ dev.position_sp = log[3].n /\ dev.speed_sp = log[4].n
    /\ dev.command = "run-to-abs-pos"

\* a go_to that finds the motor running, or at the target, ends at once and
\* leaves the device files as they are; the object never changes
C4_Frame ==
    [][/\ (pc \in {"go_to_running", "go_to_at_target"} /\ pc' = "done")
              => dev' = dev
       /\ (pc = "go_to_running" /\ running(dev.state) /\ dev' = dev)
              => pc' = "done"
       /\ motor' = motor]_vars

\* |clamped speed| times the gear ratio, over the denominator gear_ratio[2]
C4_SpeedTimesGear(speed) ==
    Least(Abs(speed) * motor.gear_ratio[1], LimitTimesGear)

\* C4 as stated: go_to writes exactly when the state read lacks `running' and
\* the position read is outside the tolerance band: then position setpoint
\* target times gear ratio, speed setpoint |clamped speed| times gear ratio,
\* and run-to-abs-pos, in that order; otherwise nothing.
C4_Original ==
    (call.op = "go_to" /\ pc = "done") =>
        \/ C4_Guarded(call.target)
        \/ /\ C4_Issued(call.target)
           /\ log[3].n * motor.gear_ratio[2]
                 = call.target * motor.gear_ratio[1]
           /\ log[4].n * motor.gear_ratio[2] = C4_SpeedTimesGear(call.speed)

\* C4, as the code has it: as stated, with each setpoint the integer part
\* (toward zero)
\* of the product named.
C4_GoToWrites ==
    /\ [](call.op = "go_to" /\ pc = "done" =>
            \/ C4_Guarded(call.target)
            \/ /\ C4_Issued(call.target)
               /\ IsTrunc(log[3].n, call.target * motor.gear_ratio[1],
                          motor.gear_ratio[2])
               /\ log[4].n >= 0
               /\ IsTrunc(log[4].n, C4_SpeedTimesGear(call.speed),
                          motor.gear_ratio[2]))
    /\ C4_Frame

\* C4: a go_to has ended on reading `running' while an earlier go_to's
\* setpoints and command are in the device, and it named another target
C4_Witness ==
    /\ pc = "done"
    /\ call.op = "go_to"
    /\ log = <<RTest("state", "running", TRUE)>>
    /\ dev.command = "run-to-abs-pos"
    /\ dev.position_sp # go_to_position_sp(motor, OfInt(call.target))
    /\ dev.speed_sp # go_to_speed_sp(motor, OfInt(call.speed))

\* the place of the run-to-abs-pos write in the log, 0 when there is none
CommandAt ==
    IF \E i \in DOMAIN log : log[i] = WStr("command", "run-to-abs-pos")
    THEN CHOOSE i \in DOMAIN log : log[i] = WStr("command", "run-to-abs-pos")
    ELSE 0

\* C5: a go_to with wait that issued run-to-abs-pos returns only on a read of
\* the state, made after the command, that lacks `running', and stays in its
\* loop while the state reads `running'; without wait it returns with the
\* command as its last access.
C5_GoToWait ==
    /\ [](call.op = "go_to" /\ pc = "done" /\ CommandAt > 0 =>
            IF call.wait
            THEN /\ Len(log) > CommandAt
                 /\ \A i \in CommandAt + 1 .. Len(log) :
                       log[i].op = "read" /\ log[i].file = "state"
                 /\ log[Len(log)] = RTest("state", "running", FALSE)
            ELSE Len(log) = CommandAt)
    /\ [][/\ (pc = "go_to_wait" /\ pc' = "done") => ~running(dev.state)
          /\ (pc = "go_to_wait" /\ running(dev.state) /\ dev' = dev)
                => pc' = "go_to_wait"
          /\ (pc = "go_to_command" /\ pc' = "done") => ~frame.wait
          /\ (pc = "go_to_command" /\ frame.wait) => pc' = "go_to_wait"]_vars

\* C5: a go_to with wait has returned after it polled `running' at least once
C5_Witness ==
    /\ pc = "done"
    /\ call.op = "go_to"
    /\ call.wait
    /\ CommandAt > 0
    /\ Len(log) = CommandAt + 2
    /\ log[CommandAt + 1] = RTest("state", "running", TRUE)

\* C8: at_target(target) is true exactly when the position read, divided by
\* the gear ratio, lies in target - tolerance .. target + tolerance, both ends
\* included; at_target reads the position once and writes nothing.
C8_AtTarget ==
    (call.op = "at_target" /\ pc = "done") =>
        /\ Len(log) = 1
        /\ log[1].op = "read" /\ log[1].file = "position"
        /\ result.b = InBand(call.target, log[1].n)

\* C8: at_target has answered true for a position at target + tolerance
C8_Witness ==
    /\ pc = "done"
    /\ call.op = "at_target"
    /\ result.b
    /\ log[1].n * motor.gear_ratio[2]
          = (call.target + motor.tolerance) * motor.gear_ratio[1]

\* C6 as stated: for every gear ratio and every position x, the position
\* read back after writing x is x, on a device that reports what was written.
C6_Original ==
    (call.op = "set_get_position" /\ pc = "done") => result.r = call.x

\* C6, as the code has it: the position read back is x when the gear ratio
\* and x are
\* integers; in general the device holds the integer part (toward zero) of x
\* times the gear ratio and the position read back is that integer divided by
\* the gear ratio.
C6_RoundTrip ==
    (call.op = "set_get_position" /\ pc = "done") =>
        LET g == motor.gear_ratio
            x == call.x
            w == log[1].n
        IN  /\ log = <<WInt("position", w), RInt("position", w)>>
            /\ IsTrunc(w, x[1] * g[1], x[2] * g[2])
            /\ result.r[1] * g[1] = w * g[2] * result.r[2]
            /\ (g[2] = 1 /\ x[2] = 1) => result.r = x

\* C6: a position other than 0 has come back unchanged through a gear ratio
\* other than 1
C6_Witness ==
    /\ pc = "done"
    /\ call.op = "set_get_position"
    /\ motor.gear_ratio[1] > 1 /\ motor.gear_ratio[2] = 1
    /\ call.x[2] = 1 /\ call.x[1] < 0
    /\ result.r = call.x

\* C7: an assignment to mode reads the mode and writes it only when the mode
\* read differs from the one assigned: assigning a mode twice in a row makes
\* one read per assignment and one write in all, none when the device was in
\* that mode already.
C7_ModeWrites ==
    /\ call.op = "mode=" =>
          \A i \in DOMAIN log :
              log[i].op = "write" =>
                  /\ i > 1
                  /\ log[i - 1].op = "read" /\ log[i - 1].file = "mode"
                  /\ log[i - 1].s # log[i].s
                  /\ log[i] = WStr("mode", call.mode)
    /\ (call.op = "mode=" /\ pc = "done") =>
          /\ Writes(log) = IF log[1].s = call.mode THEN <<>>
                           ELSE <<WStr("mode", call.mode)>>
          /\ Len(log) - Len(Writes(log)) = call.times
          /\ sensor_mode = call.mode

\* C7: a mode was assigned twice in a row and written once
C7_Witness ==
    /\ pc = "done"
    /\ call.op = "mode="
    /\ call.times = 2
    /\ Len(Writes(log)) = 1
    /\ Len(log) = 3

\* v clamped to -m .. m
Clamped(v, m) == IF v > m THEN m ELSE IF v < -m THEN -m ELSE v

\* nett + sign diff, nett = s / wheel_factor and
\* diff = r * base_factor / wheel_factor
WheelSpeed(b, s, r, sign) ==
    Add(Div(OfInt(s), b.wheel_factor),
        Div(Mul(OfInt(sign * r), b.base_factor), b.wheel_factor))

\* C9: drive_and_turn hands nett + diff to the left and nett - diff to the
\* right Motor.run when positive_turn_is_clockwise (swapped when not), with
\* nett = s / wheel_factor, diff = r * base_factor / wheel_factor, s and r the
\* speed and the turn rate clamped to max_speed and max_turn_rate, and with no
\* clamp on the wheel speeds: speed 0 and a positive turn rate clockwise give
\* left = -right > 0, turn rate 0 gives equal wheel speeds that stop growing
\* at max_speed.
C9_WheelSpeeds ==
    (call.op = "drive_and_turn" /\ pc = "done") =>
        LET b == base[1]
            s == Clamped(call.speed, b.max_speed)
            r == Clamped(call.turnrate, b.max_turn_rate)
            cw == IF b.positive_turn_is_clockwise THEN 1 ELSE -1
        IN  /\ handed = <<WheelSpeed(b, s, r, cw), WheelSpeed(b, s, r, -cw)>>
            /\ (call.speed = 0 /\ call.turnrate > 0 /\ cw = 1) =>
                  /\ handed[1][1] > 0
                  /\ handed[2] = Neg(handed[1])
            /\ call.turnrate = 0 =>
                  /\ handed[1] = handed[2]
                  /\ Abs(call.speed) >= b.max_speed =>
                        AbsR(handed[1]) = Div(OfInt(b.max_speed), b.wheel_factor)

\* C9: a wheel speed beyond max_speed / wheel_factor was handed to Motor.run
C9_Witness ==
    /\ pc = "done"
    /\ call.op = "drive_and_turn"
    /\ call.speed > base[1].max_speed
    /\ call.turnrate > 0
    /\ base[1].positive_turn_is_clockwise
    /\ Lt(Div(OfInt(base[1].max_speed), base[1].wheel_factor), handed[1])

\* C10: go_to_target with a name that is not in the target map raises and
\* leaves the motor's files as they were; with a name that is in the map it
\* hands Motor.go_to the target's value, the speed given or default_speed
\* when none is given, and wait.
C10_GoToTarget ==
    /\ [](call.op = "go_to_target" /\ call.name \notin DOMAIN mech[1].targets
            => pc = "done" /\ result = Raised("KeyError") /\ log = <<>>)
    /\ [][(pc = "idle" /\ call'.op = "go_to_target") =>
            IF call'.name \in DOMAIN mech[1].targets
            THEN /\ pc' = "go_to_running"
                 /\ stack' = <<>>
                 /\ frame'.target = <<mech[1].targets[call'.name], 1>>
                 /\ frame'.speed =
                       <<IF call'.speed_arg = <<>> THEN mech[1].default_speed
                         ELSE call'.speed_arg[1], 1>>
                 /\ frame'.wait = call'.wait
                 /\ dev' = dev
            ELSE /\ pc' = "done"
                 /\ result' = Raised("KeyError")
                 /\ dev' = dev /\ mech' = mech]_vars

\* C10: go_to_target has raised on an unknown name while the command and the
\* setpoints of an earlier go_to_target are in the motor's files
C10_Witness ==
    /\ pc = "done"
    /\ call.op = "go_to_target"
    /\ result = Raised("KeyError")
    /\ dev.command = "run-to-abs-pos"
    /\ dev.position_sp # 0

(***************************************************************************)
(* A program that resets a Mechanism again and again.  The interpreter     *)
(* keeps running the statements of reset(): its loops poll for as long as  *)
(* they have to, so a statement that can make progress is executed.  The   *)
(* state file reports whatever the device is in when the program starts.   *)
(***************************************************************************)
InitReset ==
    /\ \E g \in MechGearRatios, tol \in Tolerances :
          motor = MotorObject(g, tol, RatedMax, <<>>)
    /\ max_speed = <<>>
    /\ \E st \in SUBSET Flags :
          dev = [DeviceAfterInit(FALSE) EXCEPT !.state = st]
    /\ \E targets \in UsedTargetMaps, default_speed \in DefaultSpeeds,
          touch_sensor \in BOOLEAN :
          mech = <<MechanismObject(targets, default_speed, touch_sensor)>>
    /\ value0 = 0
    /\ NoSensor /\ NoDriveBase
    /\ ProgramStart

ResetStep ==
    \/ RunSpeedSp \/ RunCommand \/ WaitForStop \/ WaitForPress
    \/ WaitForStalled \/ StopCommand \/ SetPosition

NextReset ==
    \/ Continue
    \/ CallReset
    \/ ResetStep
    \/ DeviceState \/ TouchDevice

SpecReset == InitReset /\ [][NextReset]_vars /\ WF_vars(ResetStep)

\* the end stop reset() waits for, as the device reports it now
EndStop ==
    IF mech[1].touch_sensor THEN pressed(value0) ELSE stalled(dev.state)

\* the poll of the end stop that found it
EndStopSeen ==
    IF mech[1].touch_sensor THEN RTest("value0", "pressed", TRUE)
    ELSE RTest("state", "stalled", TRUE)

\* the file reset() polls for its end stop
EndStopFile == IF mech[1].touch_sensor THEN "value0" ELSE "state"

\* the i-th access of the log writes stop or the position
IsStopOrPosition(i) ==
    \/ log[i] = WStr("command", "stop")
    \/ log[i].op = "write" /\ log[i].file = "position"

\* C11: in reset(), stop and the position are written only after a poll that
\* found the end stop: a read of the touch sensor that reports pressed when
\* the Mechanism has one (the motor's state is not read then), a read of the
\* motor state with stalled when it has none; while the end stop is not
\* found reset() stays in its wait and writes nothing; once the end stop
\* holds for good, every reset() returns.
C11_ResetEndStop ==
    /\ [](call.op = "reset" =>
            /\ \A i \in DOMAIN log :
                  /\ IsStopOrPosition(i) =>
                        \E j \in 1 .. i - 1 : log[j] = EndStopSeen
                  /\ log[i].op = "read" => log[i].file = EndStopFile
            /\ pc = "done" => \E j \in DOMAIN log : log[j] = EndStopSeen)
    /\ [][(call.op = "reset"
            /\ pc \in {"wait_for_press", "wait_for_stalled"}) =>
            /\ pc = (IF mech[1].touch_sensor THEN "wait_for_press"
                     ELSE "wait_for_stalled")
            /\ (pc' # pc) => (EndStop /\ pc' = "stop_command"
                                /\ log' = Logged(log, EndStopSeen))
            /\ (~EndStop /\ value0' = value0 /\ dev' = dev) =>
                  (pc' = pc /\ Writes(log') = Writes(log))
            /\ dev'.command = dev.command
            /\ dev'.position = dev.position]_vars
    /\ (<>[]EndStop) => [](call.op = "reset" => <>(pc = "done"))

\* C11: a reset() of a Mechanism with a touch sensor has returned after a
\* poll that found the sensor released, on a motor that reported stalled
\* all along
C11_Witness ==
    /\ pc = "done"
    /\ call.op = "reset"
    /\ mech[1].touch_sensor
    /\ stalled(dev.state)
    /\ Len(log) = 6
    /\ log[3] = RTest("value0", "pressed", FALSE)
    /\ log[4] = RTest("value0", "pressed", TRUE)
    /\ log[5] = WStr("command", "stop")

(***************************************************************************)
(* A program that uses every method of one Motor: the commands, the duty   *)
(* setpoint and the queries.  The device files hold what was written last  *)
(* (command, setpoints) or what the device reports (position, speed,       *)
(* state).                                                                 *)
(***************************************************************************)
\* the text of the state file: the flags, separated by spaces
StateText(st) ==
    IF st = {} THEN ""
    ELSE IF st = {"running"} THEN "running"
    ELSE IF st = {"stalled"} THEN "stalled"
    ELSE "running stalled"

\* Motor.speed: the value returned for the content of the speed file
speed_get(m, content) == Div(OfInt(read_int(content)), m.gear_ratio)

Duties == {OfInt(-101), OfInt(100), Rat(101, 2), OfInt(250)}
DeviceSpeeds == {0, RatedMax}
ReadsSpeed == {"get_speed"}

\* the device reports another speed
DeviceSpeed ==
    /\ pc \in ReadsSpeed
    /\ \E v \in DeviceSpeeds : dev' = [dev EXCEPT !.speed = v]
    /\ UNCHANGED <<objects, value0, pc, stack, call, frame, log, result>>

\* Motor.speed
GetSpeed ==
    /\ pc = "get_speed"
    /\ log' = Append(log, RInt("speed", dev.speed))
    /\ Finish(ReturnedNumber(speed_get(motor, dev.speed)))
    /\ UNCHANGED <<objects, dev, value0, call, frame>>

\* Motor.state
State ==
    /\ pc = "state"
    /\ log' = Append(log, RStr("state", StateText(dev.state)))
    /\ Finish(ReturnedString(StateText(dev.state)))
    /\ UNCHANGED <<objects, dev, value0, call, frame>>

\* Motor.running
Running ==
    /\ pc = "running"
    /\ log' = Append(log, RTest("state", "running", running(dev.state)))
    /\ Finish(ReturnedBool(running(dev.state)))
    /\ UNCHANGED <<objects, dev, value0, call, frame>>

\* Motor.stalled
Stalled ==
    /\ pc = "stalled"
    /\ log' = Append(log, RTest("state", "stalled", stalled(dev.state)))
    /\ Finish(ReturnedBool(stalled(dev.state)))
    /\ UNCHANGED <<objects, dev, value0, call, frame>>

\* a duty that switches the motor to duty mode by itself
Duty_Activates ==
    /\ pc = "duty"
    /\ dev' = [dev EXCEPT !.duty_cycle_sp = write_duty(call.duty),
                          !.command = "run-direct"]
    /\ log' = log \o <<WInt("duty_cycle_sp", write_duty(call.duty)),
                       WStr("command", "run-direct")>>
    /\ Finish(Returned)
    /\ UNCHANGED <<objects, value0, call, frame>>

\* Motor.duty
Duty ==
    /\ pc = "duty"
    /\ dev' = [dev EXCEPT !.duty_cycle_sp = write_duty(call.duty)]
    /\ log' = Append(log, WInt("duty_cycle_sp", write_duty(call.duty)))
    /\ Finish(Returned)
    /\ UNCHANGED <<objects, value0, call, frame>>

\* Motor.activate_duty_mode
ActivateDutyMode ==
    /\ pc = "activate_duty_mode"
    /\ dev' = [dev EXCEPT !.command = "run-direct"]
    /\ log' = Append(log, WStr("command", "run-direct"))
    /\ Finish(Returned)
    /\ UNCHANGED <<objects, value0, call, frame>>

\* Motor.reset_all_settings
ResetAllSettings ==
    /\ pc = "reset_all_settings"
    /\ dev' = [dev EXCEPT !.command = "reset"]
    /\ log' = Append(log, WStr("command", "reset"))
    /\ Finish(Returned)
    /\ UNCHANGED <<objects, value0, call, frame>>

\* the methods without arguments, each with its statement
Methods == {"state", "running", "stalled", "get_position", "get_speed",
            "wait_for_stalled", "activate_duty_mode", "reset_all_settings",
            "stop_command"}

\* the name of the method whose statement is at label
MethodName(label) ==
    IF label = "get_position" THEN "position"
    ELSE IF label = "get_speed" THEN "speed"
    ELSE IF label = "stop_command" THEN "stop"
    ELSE label

CallMethod ==
    \E label \in Methods :
        Enter([op |-> MethodName(label)], label, <<>>, NoFrame)
        /\ UNCHANGED <<objects, dev, value0>>

CallDuty ==
    \E duty \in Duties :
        Enter([op |-> "duty", duty |-> duty], "duty", <<>>, NoFrame)
        /\ UNCHANGED <<objects, dev, value0>>

CommandSpeeds == {-MaxSpeedArg, 1}
CommandTargets == {MaxTarget}

CallRunAt ==
    \E speed \in CommandSpeeds :
        Enter([op |-> "run", speed |-> speed], "run_speed_sp", <<>>,
              [NoFrame EXCEPT !.speed = OfInt(speed)])
        /\ UNCHANGED <<objects, dev, value0>>

CallGoToAt ==
    \E target \in CommandTargets, speed \in CommandSpeeds, wait \in BOOLEAN :
        Enter([op |-> "go_to", target |-> target, speed |-> speed,
               wait |-> wait],
              "go_to_running", <<>>,
              [NoFrame EXCEPT !.target = OfInt(target),
                              !.speed = OfInt(speed), !.wait = wait])
        /\ UNCHANGED <<objects, dev, value0>>

InitCommands ==
    /\ motor = MotorObject(Rat(1, 1), 1, RatedMax, <<>>)
    /\ max_speed = <<>>
    /\ \E inverse_polarity \in BOOLEAN :
          dev = DeviceAfterInit(inverse_polarity)
    /\ NoMechanism /\ NoSensor /\ NoDriveBase
    /\ ProgramStart

NextCommands ==
    \/ Continue
    \/ CallMethod \/ CallDuty \/ CallRunAt \/ CallGoToAt \/ CallAtTarget
    \/ MotorStep \/ AtTarget \/ GetPosition \/ GetSpeed \/ WaitForStalled
    \/ State \/ Running \/ Stalled
    \/ Duty \/ ActivateDutyMode \/ ResetAllSettings
    \/ DeviceState \/ DevicePosition \/ DeviceSpeed

SpecCommands == InitCommands /\ [][NextCommands]_vars

DutyLimit == 100

\* the calls that ask the motor something
Queries == {"state", "running", "stalled", "position", "speed", "at_target",
            "wait_for_stalled"}

\* the command each call writes
CommandOf ==
    [run |-> "run-forever", activate_duty_mode |-> "run-direct",
     go_to |-> "run-to-abs-pos", stop |-> "stop",
     reset_all_settings |-> "reset"]

\* the file a query reads
FileOf ==
    [state |-> "state", running |-> "state", stalled |-> "state",
     wait_for_stalled |-> "state", position |-> "position",
     at_target |-> "position", speed |-> "speed"]

\* n is the integer part of the duty d, kept within -DutyLimit .. DutyLimit
IsDuty(n, d) ==
    IF d[1] >= DutyLimit * d[2] THEN n = DutyLimit
    ELSE IF d[1] <= -DutyLimit * d[2] THEN n = -DutyLimit
    ELSE IsTrunc(n, d[1], d[2])

\* the setpoints and the polarity: the files only the program writes
Setpoints(d) == <<d.speed_sp, d.position_sp, d.duty_cycle_sp, d.polarity>>

\* C12: the command changes only in run, activate_duty_mode, go_to, stop and
\* reset_all_settings, each writing its own command (go_to only when it is
\* not guarded); duty writes the duty setpoint, within -100 .. 100, and no
\* command; state, running, stalled, position, speed, at_target and
\* wait_for_stalled write nothing; state, running and stalled answer from a
\* read of the state file made in the call.
C12_Commands ==
    /\ [](pc = "done" =>
            /\ call.op \in {"activate_duty_mode", "stop", "reset_all_settings"}
                  => log = <<WStr("command", CommandOf[call.op])>>
            /\ call.op = "run" =>
                  /\ Len(log) = 2
                  /\ log[1].op = "write" /\ log[1].file = "speed_sp"
                  /\ log[2] = WStr("command", "run-forever")
            /\ call.op = "go_to" =>
                  \/ Writes(log) = <<>>
                  \/ /\ Len(Writes(log)) = 3
                     /\ Writes(log)[1].file = "position_sp"
                     /\ Writes(log)[2].file = "speed_sp"
                     /\ Writes(log)[3] = WStr("command", "run-to-abs-pos")
            /\ call.op = "duty" =>
                  /\ log = <<WInt("duty_cycle_sp", dev.duty_cycle_sp)>>
                  /\ IsDuty(dev.duty_cycle_sp, call.duty)
            /\ call.op \in Queries =>
                  /\ log # <<>>
                  /\ \A i \in DOMAIN log :
                        log[i].op = "read" /\ log[i].file = FileOf[call.op]
            /\ call.op = "state" =>
                  /\ log = <<RStr("state", StateText(dev.state))>>
                  /\ result = ReturnedString(StateText(dev.state))
            /\ call.op = "running" =>
                  /\ log = <<RTest("state", "running", "running" \in dev.state)>>
                  /\ result = ReturnedBool("running" \in dev.state)
            /\ call.op = "stalled" =>
                  /\ log = <<RTest("state", "stalled", "stalled" \in dev.state)>>
                  /\ result = ReturnedBool("stalled" \in dev.state))
    /\ [][/\ dev'.command # dev.command =>
                /\ call' = call
                /\ call.op \in DOMAIN CommandOf
                /\ dev'.command = CommandOf[call.op]
          /\ dev'.duty_cycle_sp # dev.duty_cycle_sp =>
                call' = call /\ call.op = "duty"
          /\ pc = "idle" => dev' = dev
          /\ (call.op = "duty" /\ call' = call) =>
                /\ dev'.command = dev.command
                /\ dev'.speed_sp = dev.speed_sp
                /\ dev'.position_sp = dev.position_sp
          /\ (call.op \in Queries /\ call' = call) =>
                /\ dev'.command = dev.command
                /\ Setpoints(dev') = Setpoints(dev)
                /\ Writes(log') = <<>>]_vars

\* C12: duty has written a setpoint cut to 100 while the motor's command is
\* still the run-forever of an earlier run
C12_Witness ==
    /\ pc = "done"
    /\ call.op = "duty"
    /\ Lt(OfInt(DutyLimit), call.duty)
    /\ dev.duty_cycle_sp = DutyLimit
    /\ dev.command = "run-forever"

(***************************************************************************)
(* A program that uses a Motor and a Sensor it has constructed: the reads  *)
(* and writes of the motor, value0 and the mode of the sensor.             *)
(***************************************************************************)
\* Sensor.value0
Value0 ==
    /\ pc = "value0"
    /\ log' = Append(log, RInt("value0", read_int(value0)))
    /\ Finish(ReturnedNumber(OfInt(read_int(value0))))
    /\ UNCHANGED <<objects, dev, value0, call, frame>>

OpenedModes == {"GYRO-RATE", "GYRO-ANG"}
OpenedMethods == {"state", "get_position", "get_speed", "stop_command",
                  "value0"}

CallOpened ==
    \E label \in OpenedMethods :
        Enter([op |-> MethodName(label)], label, <<>>, NoFrame)
        /\ UNCHANGED <<objects, dev, value0>>

InitOpens ==
    /\ motor = MotorObject(Rat(1, 1), 1, RatedMax, <<>>)
    /\ max_speed = <<>>
    /\ dev = DeviceAfterInit(FALSE)
    /\ mech = <<>> /\ value0 = 0
    /\ sensor_mode \in OpenedModes
    /\ NoDriveBase
    /\ ProgramStart

NextOpens ==
    \/ Continue
    \/ CallOpened \/ CallRunAt \/ CallGoToAt \/ CallGetMode \/ CallSetMode
    \/ MotorStep \/ State \/ GetPosition \/ GetSpeed \/ Value0
    \/ GetMode \/ SetModeCompare \/ SetModeWrite
    \/ DeviceState \/ DevicePosition \/ DeviceSpeed \/ TouchDevice

SpecOpens == InitOpens /\ [][NextOpens]_vars

\* the statements of the mode getter and the mode setter
ModeLabels == {"mode_get", "mode_set_compare", "mode_set_write"}

\* C13 as stated: after construction no operation opens a file or resolves a
\* path: the number of file opens and of path resolutions stays what it was.
C13_Original == io = NoOpens

\* C13, as the code has it: after construction no operation resolves a path,
\* and the reads and writes of the Motor and value0 open no file; each read
\* of the mode file (by the mode getter, and by the mode setter for its
\* comparison) and each write of it opens the file once more.
C13_Opens ==
    /\ [](/\ io.paths = NoOpens.paths
          /\ pc \in ModeLabels => call.op \in {"mode", "mode="}
          /\ call.op \notin {"mode", "mode="} => pc \notin ModeLabels)
    /\ [][IF pc \in ModeLabels
          THEN /\ io' = Opened(io)
               /\ Len(log') = Len(log) + 1
               /\ log'[Len(log')].file = "mode"
          ELSE io' = io]_vars

\* C13: an assignment to mode has opened the mode file twice, to read it and
\* to write it, after a go_to and others that opened nothing
C13_Witness ==
    /\ pc = "done"
    /\ call.op = "mode="
    /\ call.times = 1
    /\ Len(log) = 2
    /\ io.opens = 2
    /\ dev.command = "run-to-abs-pos"
====
